---- MODULE Spec2Model ----
(***************************************************************************)
(* A model of the finite-state-machine engine of package fine (fine.go):   *)
(* the FSM struct, the Machine constructor, Do / do / doLifecycle,         *)
(* Subscribe and the unsubscribe closure, and the sync.RWMutex that guards *)
(* them.  Goroutines are the processes of Procs; every step of a method    *)
(* that sits between two lock operations is one action.                    *)
(***************************************************************************)
EXTENDS Integers, Sequences, FiniteSets, TLC

(***************************************************************************)
(* Bounds of the model.                                                    *)
(***************************************************************************)
\* number of method calls issued on the machine in one behaviour
MaxCalls == 4
\* number of Subscribe calls (keys handed out by lastSubKey)
MaxSubs == 2

\* lastSubKey and the keys of FSM.subscribers are of type int32
MaxInt32 == 2147483647
MinInt32 == -MaxInt32 - 1
\* the value atomic.AddInt32(&x, 1) stores and returns: the sum wraps around
AddInt32(x) == IF x = MaxInt32 THEN MinInt32 ELSE x + 1
\* the keys the next n Subscribe calls are given when lastSubKey is x
RECURSIVE Issued(_, _)
Issued(x, n) ==
  IF n = 0 THEN {} ELSE {AddInt32(x)} \cup Issued(AddInt32(x), n - 1)
\* the calls of the specification of a machine late in its life, and the
\* values lastSubKey has at its start: that of 2^31 - 2 and that of
\* 2^32 - 1 Subscribe calls
MaxKeyCalls == 3
LateCounts == {MaxInt32 - 1, -1}
KeyEvents == {"next", "run"}

\* the calls on the machine and on the second machine in the specification
\* of two machines
MaxTwoCalls == 3
MaxOtherCalls == 3
TwoEvents == {"next", "run"}

\* the goroutines calling into the machine
Procs == {"g1", "g2"}
\* the single caller of the sequential specification
SeqProcs == {"g1"}

None == "none"
\* Go's zero string, returned by Do next to an error
Empty == ""

(***************************************************************************)
(* Action values (type Transitions map[string]interface{}).                *)
(* kind is the dynamic type the type switches of do and doLifecycle see.   *)
(***************************************************************************)
NilAct == [kind |-> "nil", to |-> Empty]
Str(s) == [kind |-> "string", to |-> s]
Func == [kind |-> "func()", to |-> Empty]
FuncV == [kind |-> "func(...)", to |-> Empty]
FuncS(s) == [kind |-> "func() string", to |-> s]
FuncVS(s) == [kind |-> "func(...) string", to |-> s]
FuncFSM == [kind |-> "func(*FSM)", to |-> Empty]
FuncMeta == [kind |-> "func(Metadata)", to |-> Empty]
FuncFSMMeta == [kind |-> "func(*FSM, Metadata)", to |-> Empty]

\* a value of a type neither type switch knows
IntAct == [kind |-> "int", to |-> Empty]

LifecycleEvents == {"@enter", "@exit"}

\* the shapes the type switch of do accepts
ActionKinds == {"nil", "string", "func()", "func(...)", "func() string", "func(...) string"}
\* the shapes the type switch of doLifecycle accepts
LifecycleKinds == {"nil", "func()", "func(*FSM)", "func(Metadata)", "func(*FSM, Metadata)"}

\* the state table the machine is constructed with
InitialStates ==
  ("a" :> ( ("next" :> Str("b")) @@ ("stay" :> NilAct) @@ ("self" :> Str("a"))
            @@ ("run" :> Func) @@ ("runv" :> FuncV) @@ ("go" :> FuncS("b"))
            @@ ("gov" :> FuncVS("c")) @@ ("smash" :> Str("broken"))
            @@ ("bad" :> IntAct)
            @@ ("@exit" :> FuncMeta) @@ ("@enter" :> Func) ))
  @@
  ("b" :> ( ("next" :> Str("c")) @@ ("stay" :> NilAct)
            @@ ("@enter" :> FuncFSMMeta) @@ ("@exit" :> FuncFSM) ))
  @@
  ("c" :> ( ("next" :> Str("a")) @@ ("gov" :> FuncVS("a")) ))

\* names Machine may be given as the initial state
InitialNames == {"a", "b", "c", "broken"}
\* the initial states of the concurrent specification
ConcInitialNames == {"a", "broken"}

\* events and argument lists callers pass to Do
Events == {"next", "stay", "self", "run", "runv", "go", "gov", "smash", "bad", "missing", "@enter", "@exit"}
ArgLists == {<< >>, <<"x">>}
\* the events of the concurrent callers
ConcEvents == {"next", "stay", "run", "missing", "@exit"}
ConcArgLists == {<< >>}

\* the calls of the specification with mutators: at most MaxMutCalls calls,
\* MaxMutSubs of them Subscribe
MaxMutCalls == 3
MaxMutSubs == 1
MutEvents == {"next", "smash", "run"}
\* the map without entries
NoTab == [x \in {} |-> NilAct]
\* a Transitions value: the nil map, or the map with the entries of map
\* kept: the value is the one map the caller holds on to and passes to
\* more than one call, otherwise a map literal made for the call
NilTransitions == [isNil |-> TRUE, map |-> NoTab, kept |-> FALSE]
NonNil(map) == [isNil |-> FALSE, map |-> map, kept |-> FALSE]
KeptTransitions == [isNil |-> FALSE, map |-> NoTab, kept |-> TRUE]
\* the states the mutators are given and the table they are given
MutNames == {"a", "broken"}
MutTabs == { NonNil(("next" :> Str("a")) @@ ("@exit" :> Func)) }
\* the calls of the specification whose mutators are given nil maps
MaxNilCalls == 2
NilEvents == {"next", "run"}
NilNames == {"broken"}
NilTabs == {NilTransitions, NonNil(NoTab)} \cup MutTabs
\* the calls of the specification whose tables hold values of no legal shape
MaxBadCalls == 3
BadEvents == {"smash", "bad", "next", "run"}
BadNames == {"a", "broken"}
BadTabs ==
  { NonNil(("smash" :> Str("broken")) @@ ("@exit" :> IntAct)),
    NonNil(("smash" :> Str("broken")) @@ ("next" :> IntAct)),
    NonNil("@enter" :> IntAct) }
\* the calls of the specification whose caller passes one map twice
MaxShareCalls == 3
ShareEvents == {"next", "run"}
ShareNames == {"a", "broken"}
ShareTabs == {KeptTransitions, NonNil("run" :> Func)}
\* the events of the caller whose user code uses the machine
HookEvents == {"next", "run"}
\* the calls of that specification, the Do calls of hooks not counted
MaxHookCalls == 3
\* the events of the callers whose callbacks use the machine
ReentEvents == {"next"}
\* the calls of the specification with fairness
MaxLiveCalls == 3
LiveEvents == {"next", "run"}
LiveNames == {"broken"}

VARIABLES
  phase,        \* "new" before Machine runs, then "running" or "panicked"
  initial,      \* the initialState argument of Machine
  current,      \* FSM.current
  states,       \* FSM.states
  subscribers,  \* keys of FSM.subscribers (the callback of key k is callback k)
  lastSubKey,   \* FSM.lastSubKey
  readers,      \* goroutines holding FSM.mu for reading
  writer,       \* goroutine that called FSM.mu.Lock() and has not unlocked
  pc,           \* position of each goroutine inside its call
  op,           \* the call each goroutine is in (or has last finished)
  newState,     \* Do's local newState
  metadata,     \* Do's local metadata
  todo,         \* keys the range loop of Do has still to visit
  ret,          \* the values returned by the last finished call
  handles,      \* keys whose unsubscribe closure has been returned
  ncalls,       \* calls issued so far
  nilTabs,      \* keys of FSM.states whose Transitions map is nil
  other,        \* a second FSM value and the goroutine that calls into it
  kept,         \* the map the caller holds on to: its entries, and the keys
                \* of FSM.states whose value is this map
  \* ---- observations ----
  trace,        \* steps the current call of each goroutine has performed
  ctorTrace,    \* steps Machine performed
  pre,          \* m.current when the call began, then as Do read it at line 441
  preTab,       \* m.states[m.current] at the same moments
  delivered,    \* per key: the states its callback was called with
  changes,      \* per key: times m.current changed value while registered
  commitSubs,   \* per goroutine: subscribers at the swap of its Do
  notifySubs,   \* per goroutine: subscribers when its notification loop began
  swapChanged,  \* per goroutine: did the swap of its Do change m.current
  cancelled,    \* keys whose unsubscribe closure has returned
  inFlight      \* per goroutine: the goroutines that were between the swap
                \* and the end of @enter of a Do when its call began

vars == <<phase, initial, current, states, subscribers, lastSubKey, readers,
          writer, pc, op, newState, metadata, todo, ret, handles, ncalls,
          trace, ctorTrace, pre, preTab, delivered, changes, commitSubs,
          notifySubs, swapChanged, cancelled, inFlight, nilTabs, other, kept>>

shared == <<current, states, subscribers, lastSubKey>>
locks == <<readers, writer>>
ctor == <<phase, initial, ctorTrace>>
\* what only the calls of its own specification change
rest == <<nilTabs, other, kept>>
obsDo == <<pre, preTab, commitSubs, notifySubs, swapChanged, inFlight>>
obsSub == <<delivered, changes, cancelled>>

Keys == (1..MaxSubs) \cup UNION {Issued(x, MaxKeyCalls) : x \in LateCounts}

\* a call: its method, and the arguments the method has (event and args of
\* Do, key of an unsubscribe closure, state and tab of a mutator or Exists)
NoOp == [name |-> None, event |-> Empty, args |-> << >>, key |-> 0,
         state |-> Empty, tab |-> NoTab, isNil |-> FALSE, kept |-> FALSE]
\* the map the caller holds on to, before it has been given to the machine
NoKept == [tab |-> ("next" :> Str("broken")), names |-> {}]
\* what a call returned: state and err of Do (state also of State), names
\* of States, ok of Exists
NoRet == [state |-> Empty, err |-> None, set |-> FALSE, names |-> << >>, ok |-> FALSE]
NoMeta == [From |-> Empty, To |-> Empty, Event |-> Empty, Args |-> << >>]
\* a call returned state and err
Returned(state, err) == [NoRet EXCEPT !.state = state, !.err = err, !.set = TRUE]

\* m.states[s][e]: indexing a missing state gives a nil map, indexing a nil
\* map or a missing key gives the nil interface
Lookup(tab, s, e) ==
  IF s \in DOMAIN tab /\ e \in DOMAIN tab[s] THEN tab[s][e] ELSE NilAct

\* the ok of `_, ok := m.states[s][e]`
HasAction(tab, s, e) == s \in DOMAIN tab /\ e \in DOMAIN tab[s]

TabOf(tab, s) == IF s \in DOMAIN tab THEN tab[s] ELSE NoTab

\* one observed step of a call
Obs(kind, st, hook, meta, cur, key, args) ==
  [kind |-> kind, st |-> st, hook |-> hook, meta |-> meta, cur |-> cur,
   key |-> key, args |-> args]

\* sync.RWMutex: RLock blocks while a writer has called Lock
CanRLock == writer = None

\* the second machine, as Machine("off", ...) of the blinking LED returns it:
\* the fields of its FSM value; pc and key, the position and the key of the
\* goroutine that calls into it; calls, the key and the state of every call
\* of one of its callbacks; ncalls, the calls issued on it
NoOther ==
  [current |-> "off", subscribers |-> {}, lastSubKey |-> 0, writer |-> None,
   pc |-> "idle", key |-> 0, calls |-> << >>, ncalls |-> 0]
\* its table: toggle leads from each of its two states to the other
OtherStates == [off |-> [toggle |-> "on"], on |-> [toggle |-> "off"]]

(***************************************************************************)
(* Initial state: nothing constructed yet.                                 *)
(***************************************************************************)
Init ==
  /\ phase = "new"
  /\ initial = Empty
  /\ current = Empty
  /\ states = InitialStates
  /\ nilTabs = {}
  /\ other = NoOther
  /\ kept = NoKept
  /\ subscribers = {}
  /\ lastSubKey = 0
  /\ readers = {}
  /\ writer = None
  /\ pc = [p \in Procs |-> "idle"]
  /\ op = [p \in Procs |-> NoOp]
  /\ newState = [p \in Procs |-> Empty]
  /\ metadata = [p \in Procs |-> NoMeta]
  /\ todo = [p \in Procs |-> {}]
  /\ ret = [p \in Procs |-> NoRet]
  /\ handles = {}
  /\ ncalls = 0
  /\ trace = [p \in Procs |-> << >>]
  /\ ctorTrace = << >>
  /\ pre = [p \in Procs |-> Empty]
  /\ preTab = [p \in Procs |-> NoTab]
  /\ delivered = [k \in Keys |-> << >>]
  /\ changes = [k \in Keys |-> 0]
  /\ commitSubs = [p \in Procs |-> {}]
  /\ notifySubs = [p \in Procs |-> {}]
  /\ swapChanged = [p \in Procs |-> FALSE]
  /\ cancelled = {}
  /\ inFlight = [p \in Procs |-> {}]

\* the machine Machine("a", InitialStates) late in its life: Subscribe has
\* been called so often that lastSubKey is about to wrap around or to reach
\* the keys it started with; the first subscriber is still registered or
\* has been cancelled, all later ones have been cancelled.  The calls made
\* so far are not counted in ncalls.
InitKeys ==
  /\ phase = "running"
  /\ initial = "a"
  /\ current = "a"
  /\ states = InitialStates
  /\ nilTabs = {}
  /\ other = NoOther
  /\ kept = NoKept
  /\ lastSubKey \in LateCounts
  /\ subscribers \in {{}, {1}}
  /\ handles = {1}
  /\ cancelled = {1} \ subscribers
  /\ delivered = [k \in Keys |-> IF k = 1 THEN << "a" >> ELSE << >>]
  /\ changes = [k \in Keys |-> 0]
  /\ readers = {}
  /\ writer = None
  /\ pc = [p \in Procs |-> "idle"]
  /\ op = [p \in Procs |-> NoOp]
  /\ newState = [p \in Procs |-> Empty]
  /\ metadata = [p \in Procs |-> NoMeta]
  /\ todo = [p \in Procs |-> {}]
  /\ ret = [p \in Procs |-> NoRet]
  /\ ncalls = 0
  /\ trace = [p \in Procs |-> << >>]
  /\ ctorTrace = << >>
  /\ pre = [p \in Procs |-> Empty]
  /\ preTab = [p \in Procs |-> NoTab]
  /\ commitSubs = [p \in Procs |-> {}]
  /\ notifySubs = [p \in Procs |-> {}]
  /\ swapChanged = [p \in Procs |-> FALSE]
  /\ inFlight = [p \in Procs |-> {}]

perProc == <<pc, op, newState, metadata, todo, ret, trace>>

(***************************************************************************)
(* doLifecycle(action, metadata), lines 537-566: the hook of m.current is  *)
(* looked up under the read lock and called after RUnlock.  The result is  *)
(* the step the call adds to the caller's trace: nothing for a nil hook.   *)
(***************************************************************************)
LifecycleObs(cur, action, meta) ==
  LET hook == Lookup(states, cur, action)
  IN IF hook.kind = "nil" THEN << >>
     ELSE << Obs(action, cur, hook,
                 IF hook.kind \in {"func(Metadata)", "func(*FSM, Metadata)"}
                   THEN meta ELSE NoMeta,
                 cur, 0, << >>) >>

\* mutant: doLifecycle has no default branch
LifecyclePanics_Never(cur, action) == FALSE

\* the default branch of doLifecycle's type switch
LifecyclePanics(cur, action) ==
  Lookup(states, cur, action).kind \notin LifecycleKinds

(***************************************************************************)
(* Machine(initialState, states), lines 330-350.                           *)
(***************************************************************************)
\* mutant: the check of lines 331-333 is missing
MachinePanic_Accepts(init) ==
  /\ phase = "new"
  /\ init \notin DOMAIN states
  /\ phase' = "running"
  /\ initial' = init
  /\ current' = init
  /\ UNCHANGED <<states, subscribers, lastSubKey, locks, perProc, handles, rest,
                 ncalls, ctorTrace, obsDo, obsSub>>

MachinePanic(init) ==
  /\ phase = "new"
  /\ init \notin DOMAIN states
  /\ phase' = "panicked"
  /\ initial' = init
  /\ UNCHANGED <<shared, locks, perProc, handles, ncalls, ctorTrace, obsDo,
                 obsSub, rest>>

MachineWith(init, action, meta) ==
  /\ phase = "new"
  /\ init \in DOMAIN states
  /\ initial' = init
  /\ current' = init
  /\ subscribers' = {}
  /\ lastSubKey' = 0
  /\ IF LifecyclePanics(init, action)
       THEN /\ phase' = "panicked"
            /\ readers' = {"machine"}
            /\ ctorTrace' = << >>
       ELSE /\ phase' = "running"
            /\ readers' = readers
            /\ ctorTrace' = LifecycleObs(init, action, meta)
  /\ UNCHANGED <<states, writer, perProc, handles, ncalls, obsDo, obsSub, rest>>

\* mutant: the Metadata of the first @enter names the state as From
Machine_FromInitial(init) ==
  MachineWith(init, "@enter",
              [From |-> init, To |-> init, Event |-> Empty, Args |-> << >>])

Machine(init) ==
  MachineWith(init, "@enter",
              [From |-> Empty, To |-> init, Event |-> Empty, Args |-> << >>])

(***************************************************************************)
(* Do(action, args...), lines 433-495.                                     *)
(***************************************************************************)
Idle(p) == phase = "running" /\ pc[p] = "idle" /\ ncalls < MaxCalls

\* a call begins: the observations of the previous call are dropped
Begin(p, o, r) ==
  /\ op' = [op EXCEPT ![p] = o]
  /\ ret' = [ret EXCEPT ![p] = r]
  /\ trace' = [trace EXCEPT ![p] = << >>]
  /\ newState' = [newState EXCEPT ![p] = Empty]
  /\ metadata' = [metadata EXCEPT ![p] = NoMeta]
  /\ pre' = [pre EXCEPT ![p] = current]
  /\ preTab' = [preTab EXCEPT ![p] = TabOf(states, current)]
  /\ commitSubs' = [commitSubs EXCEPT ![p] = {}]
  /\ notifySubs' = [notifySubs EXCEPT ![p] = {}]
  /\ swapChanged' = [swapChanged EXCEPT ![p] = FALSE]
  /\ inFlight' = [inFlight EXCEPT ![p] =
                    {q \in Procs \ {p} : pc[q] \in {"notify", "notifying", "enter"}}]
  /\ ncalls' = ncalls + 1

DoOp(e, args) == [NoOp EXCEPT !.name = "Do", !.event = e, !.args = args]

\* mutant: the guard of line 435 is missing, the event is dispatched
DoLifecycleEvent_Dispatched(p, e, args) ==
  /\ Idle(p)
  /\ e \in LifecycleEvents
  /\ Begin(p, DoOp(e, args), NoRet)
  /\ pc' = [pc EXCEPT ![p] = "check"]
  /\ UNCHANGED <<shared, locks, ctor, rest, todo, handles, obsSub>>

\* lines 435-437: a lifecycle event is refused before any lock is taken
DoLifecycleEvent(p, e, args) ==
  /\ Idle(p)
  /\ e \in LifecycleEvents
  /\ Begin(p, DoOp(e, args), Returned(Empty, "illegal"))
  /\ UNCHANGED <<shared, locks, ctor, rest, pc, todo, handles, obsSub>>

\* Do is called with an ordinary event
DoCall(p, e, args) ==
  /\ Idle(p)
  /\ e \notin LifecycleEvents
  /\ Begin(p, DoOp(e, args), NoRet)
  /\ pc' = [pc EXCEPT ![p] = "check"]
  /\ UNCHANGED <<shared, locks, ctor, rest, todo, handles, obsSub>>

\* lines 440-448 with the event found (found) or not
DoCheckWith(p, found) ==
  /\ pc[p] = "check"
  /\ CanRLock
  /\ pre' = [pre EXCEPT ![p] = current]
  /\ preTab' = [preTab EXCEPT ![p] = TabOf(states, current)]
  /\ IF found
       THEN /\ pc' = [pc EXCEPT ![p] = "do"]
            /\ ret' = ret
       ELSE /\ pc' = [pc EXCEPT ![p] = "idle"]
            /\ ret' = [ret EXCEPT ![p] = Returned(Empty, "noaction")]
  /\ UNCHANGED <<shared, locks, ctor, rest, op, newState, metadata, todo, handles,
                 ncalls, trace, commitSubs, notifySubs, swapChanged, inFlight,
                 obsSub>>

\* mutant: the existence check of line 441 is missing
DoCheck_NoReject(p) == DoCheckWith(p, TRUE)

\* lines 440-448: the event must be in the table of the current state
DoCheck(p) == DoCheckWith(p, HasAction(states, current, op[p].event))

\* do(action, args...), lines 497-535: the type switch on the action value.
\* A function value is called after RUnlock; a function without result
\* makes do read m.current again afterwards (lines 531-534).
DoAct(p) ==
  /\ pc[p] = "do"
  /\ CanRLock
  /\ LET next == Lookup(states, current, op[p].event)
         ran(args) == Append(trace[p],
                        Obs("action", current, next, NoMeta, current, 0, args))
     IN CASE next.kind = "nil" ->
               /\ newState' = [newState EXCEPT ![p] = current]
               /\ pc' = [pc EXCEPT ![p] = "compare"]
               /\ UNCHANGED <<trace, readers>>
          [] next.kind = "string" ->
               /\ newState' = [newState EXCEPT ![p] = next.to]
               /\ pc' = [pc EXCEPT ![p] = "compare"]
               /\ UNCHANGED <<trace, readers>>
          [] next.kind = "func()" ->
               /\ trace' = [trace EXCEPT ![p] = ran(<< >>)]
               /\ pc' = [pc EXCEPT ![p] = "reread"]
               /\ UNCHANGED <<newState, readers>>
          [] next.kind = "func(...)" ->
               /\ trace' = [trace EXCEPT ![p] = ran(op[p].args)]
               /\ pc' = [pc EXCEPT ![p] = "reread"]
               /\ UNCHANGED <<newState, readers>>
          [] next.kind = "func() string" ->
               /\ trace' = [trace EXCEPT ![p] = ran(<< >>)]
               /\ newState' = [newState EXCEPT ![p] = next.to]
               /\ pc' = [pc EXCEPT ![p] = "compare"]
               /\ UNCHANGED readers
          [] next.kind = "func(...) string" ->
               /\ trace' = [trace EXCEPT ![p] = ran(op[p].args)]
               /\ newState' = [newState EXCEPT ![p] = next.to]
               /\ pc' = [pc EXCEPT ![p] = "compare"]
               /\ UNCHANGED readers
          [] OTHER ->
               \* panic at line 526, the read lock of line 499 still held
               /\ readers' = readers \cup {p}
               /\ pc' = [pc EXCEPT ![p] = "panicked"]
               /\ UNCHANGED <<trace, newState>>
  /\ UNCHANGED <<shared, writer, ctor, rest, op, metadata, todo, ret, handles,
                 ncalls, obsDo, obsSub>>

\* lines 531-534: do returns m.current after a function without result
DoReread(p) ==
  /\ pc[p] = "reread"
  /\ CanRLock
  /\ newState' = [newState EXCEPT ![p] = current]
  /\ pc' = [pc EXCEPT ![p] = "compare"]
  /\ UNCHANGED <<shared, locks, ctor, rest, op, metadata, todo, ret, handles,
                 ncalls, trace, obsDo, obsSub>>

DoCompareWith(p, stateChanged) ==
  /\ pc[p] = "compare"
  /\ CanRLock
  /\ pc' = [pc EXCEPT ![p] = IF stateChanged THEN "meta" ELSE "return"]
  /\ UNCHANGED <<shared, locks, ctor, rest, op, newState, metadata, todo, ret,
                 handles, ncalls, trace, obsDo, obsSub>>

\* mutant: stateChanged is never set, the result of do is dropped
DoCompare_NeverChanged(p) == DoCompareWith(p, FALSE)

\* lines 453-459: stateChanged
DoCompare(p) == DoCompareWith(p, newState[p] # current)

DoMetaWith(p, meta) ==
  /\ pc[p] = "meta"
  /\ CanRLock
  /\ metadata' = [metadata EXCEPT ![p] = meta]
  /\ pc' = [pc EXCEPT ![p] = "exit"]
  /\ UNCHANGED <<shared, locks, ctor, rest, op, newState, todo, ret, handles,
                 ncalls, trace, obsDo, obsSub>>

\* mutant: the Metadata is built without the caller's arguments
DoMeta_NoArgs(p) ==
  DoMetaWith(p, [From |-> current, To |-> newState[p],
                 Event |-> op[p].event, Args |-> << >>])

\* lines 463-470: the Metadata of the transition
DoMeta(p) ==
  DoMetaWith(p, [From |-> current, To |-> newState[p],
                 Event |-> op[p].event, Args |-> op[p].args])

\* doLifecycle for the hook named action; left and w: the holders of the
\* read lock and of the write lock while the hook runs
DoHookWith(p, at, action, then, left, w) ==
  /\ pc[p] = at
  /\ CanRLock
  /\ writer' = w
  /\ IF LifecyclePanics(current, action)
       THEN /\ readers' = readers \cup {p}
            /\ pc' = [pc EXCEPT ![p] = "panicked"]
            /\ trace' = trace
       ELSE /\ readers' = left
            /\ pc' = [pc EXCEPT ![p] = then]
            /\ trace' = [trace EXCEPT ![p] =
                           trace[p] \o LifecycleObs(current, action, metadata[p])]
  \* once @enter has run the transition of p is over
  /\ inFlight' = [q \in Procs |->
                    IF action = "@enter" THEN inFlight[q] \ {p} ELSE inFlight[q]]
  /\ UNCHANGED <<shared, ctor, rest, op, newState, metadata, todo, ret,
                 handles, ncalls, pre, preTab, commitSubs, notifySubs,
                 swapChanged, obsSub>>

\* mutant: the hook is called before RUnlock, the read lock stays held
DoHook_KeepsRLock(p, at, action, then) ==
  DoHookWith(p, at, action, then, readers \cup {p}, writer)

\* lines 473 and 488 with lines 537-566: the hook is looked up under the
\* read lock and called after RUnlock
DoHook(p, at, action, then) == DoHookWith(p, at, action, then, readers, writer)

DoExit(p) == DoHook(p, "exit", "@exit", "lock")

DoEnter(p) == DoHook(p, "enter", "@enter", "return")

\* m.mu.Lock() is called (lines 382, 394, 404, 410, 476, 577, 583): the
\* goroutine becomes the pending writer; later RLock calls block from here on
LockAnnounce(p) ==
  /\ pc[p] \in {"lock", "sublock", "unsublock", "putlock", "mergelock"}
  /\ writer = None
  /\ writer' = p
  /\ pc' = [pc EXCEPT ![p] = CASE pc[p] = "lock" -> "swap"
                               [] pc[p] = "sublock" -> "register"
                               [] pc[p] = "unsublock" -> "delete"
                               [] pc[p] = "putlock" -> "put"
                               [] pc[p] = "mergelock" -> "merge"]
  /\ UNCHANGED <<shared, readers, ctor, rest, op, newState, metadata, todo, ret,
                 handles, ncalls, trace, obsDo, obsSub>>

\* mutant: the mutex is one variable of the package, not a field of FSM
Locked_OneMutex(p) == writer = p /\ readers = {} /\ other.writer = None

\* Lock returns once the readers have left
Locked(p) == writer = p /\ readers = {}

DoSwapThen(p, then) ==
  /\ pc[p] = "swap"
  /\ Locked(p)
  /\ current' = newState[p]
  /\ writer' = None
  /\ pc' = [pc EXCEPT ![p] = then]
  /\ trace' = [trace EXCEPT ![p] =
                 Append(trace[p], Obs("swap", newState[p], NilAct, NoMeta,
                                      newState[p], 0, << >>))]
  /\ commitSubs' = [commitSubs EXCEPT ![p] = subscribers]
  /\ swapChanged' = [swapChanged EXCEPT ![p] = (newState[p] # current)]
  /\ changes' = [k \in Keys |->
                   IF k \in subscribers /\ newState[p] # current
                     THEN changes[k] + 1 ELSE changes[k]]
  /\ UNCHANGED <<states, subscribers, lastSubKey, readers, ctor, rest, op, newState,
                 metadata, todo, ret, handles, ncalls, pre, preTab, notifySubs,
                 inFlight, delivered, cancelled>>

\* mutant: the notification loop of lines 480-485 is missing
DoSwap_SkipNotify(p) == DoSwapThen(p, "enter")

\* mutant: a target that is not in the table is not made current
DoSwap_Validated(p) ==
  IF newState[p] \in DOMAIN states
    THEN DoSwapThen(p, "notify")
    ELSE /\ pc[p] = "swap"
         /\ Locked(p)
         /\ writer' = None
         /\ pc' = [pc EXCEPT ![p] = "return"]
         /\ UNCHANGED <<shared, readers, ctor, rest, op, newState, metadata, todo,
                        ret, handles, ncalls, trace, obsDo, obsSub>>

\* lines 476-478: the state swap
DoSwap(p) == DoSwapThen(p, "notify")

\* line 481: RLock before the range over m.subscribers
DoNotifyBegin(p) ==
  /\ pc[p] = "notify"
  /\ CanRLock
  /\ notifySubs' = [notifySubs EXCEPT ![p] = subscribers]
  /\ todo' = [todo EXCEPT ![p] = subscribers]
  /\ IF subscribers = {}
       THEN /\ pc' = [pc EXCEPT ![p] = "enter"]
            /\ readers' = readers
       ELSE /\ pc' = [pc EXCEPT ![p] = "notifying"]
            /\ readers' = readers \cup {p}
  /\ UNCHANGED <<shared, writer, ctor, rest, op, newState, metadata, ret, handles,
                 ncalls, trace, pre, preTab, commitSubs, swapChanged, inFlight,
                 obsSub>>

DoNotifyOneWith(p, k, state) ==
  /\ pc[p] = "notifying"
  /\ k \in todo[p]
  /\ delivered' = [delivered EXCEPT ![k] = Append(@, state)]
  /\ trace' = [trace EXCEPT ![p] =
                 Append(trace[p], Obs("notify", state, NilAct, NoMeta,
                                      current, k, << >>))]
  /\ todo' = [todo EXCEPT ![p] = @ \ {k}]
  /\ IF todo[p] = {k}
       THEN /\ pc' = [pc EXCEPT ![p] = "enter"]
            /\ readers' = readers \ {p}
       ELSE /\ pc' = pc
            /\ readers' = readers
  /\ UNCHANGED <<shared, writer, ctor, rest, op, newState, metadata, ret, handles,
                 ncalls, obsDo, changes, cancelled>>

\* mutant: the callback is given m.current, not the local newState
DoNotifyOne_Current(p, k) == DoNotifyOneWith(p, k, current)

\* lines 482-485: one callback(newState); map order is not fixed; RUnlock
\* after the last one
DoNotifyOne(p, k) == DoNotifyOneWith(p, k, newState[p])

\* lines 491-494
DoReturn(p) ==
  /\ pc[p] = "return"
  /\ CanRLock
  /\ ret' = [ret EXCEPT ![p] = Returned(current, None)]
  /\ pc' = [pc EXCEPT ![p] = "idle"]
  /\ UNCHANGED <<shared, locks, ctor, rest, op, newState, metadata, todo, handles,
                 ncalls, trace, obsDo, obsSub>>

(***************************************************************************)
(* Subscribe(callback) and the unsubscribe closure, lines 574-587.         *)
(***************************************************************************)
\* line 575: key := atomic.AddInt32(&m.lastSubKey, 1)
SubscribeIssue(p) ==
  /\ Idle(p)
  /\ lastSubKey' = AddInt32(lastSubKey)
  /\ Begin(p, [NoOp EXCEPT !.name = "Subscribe", !.key = AddInt32(lastSubKey)],
           NoRet)
  /\ pc' = [pc EXCEPT ![p] = "sublock"]
  /\ UNCHANGED <<current, states, subscribers, locks, ctor, rest, todo, handles, obsSub>>

\* Subscribe is called for at most the MaxSubs-th time
SubscribeCall(p) == lastSubKey \in 0..(MaxSubs - 1) /\ SubscribeIssue(p)

\* calls: the states the callback is called with, in order
SubscribeRegisterWith(p, calls) ==
  /\ pc[p] = "register"
  /\ Locked(p)
  /\ subscribers' = subscribers \cup {op[p].key}
  /\ delivered' = [delivered EXCEPT ![op[p].key] = @ \o calls]
  /\ trace' = [trace EXCEPT ![p] =
                 trace[p] \o [i \in 1..Len(calls) |->
                                Obs("notify", calls[i], NilAct, NoMeta,
                                    current, op[p].key, << >>)]]
  /\ writer' = None
  /\ pc' = [pc EXCEPT ![p] = "subret"]
  /\ UNCHANGED <<current, states, lastSubKey, readers, ctor, rest, op, newState,
                 metadata, todo, ret, handles, ncalls, obsDo, changes, cancelled>>

\* mutant: the callback is registered but not called (line 579 missing)
SubscribeRegister_NoCallback(p) == SubscribeRegisterWith(p, << >>)

\* lines 577-580: register and deliver the current state, write lock held
SubscribeRegister(p) == SubscribeRegisterWith(p, << current >>)

\* line 582: the closure is returned
SubscribeReturn(p) ==
  /\ pc[p] = "subret"
  /\ handles' = handles \cup {op[p].key}
  /\ ret' = [ret EXCEPT ![p] = Returned(Empty, None)]
  /\ pc' = [pc EXCEPT ![p] = "idle"]
  /\ UNCHANGED <<shared, locks, ctor, rest, op, newState, metadata, todo, ncalls,
                 trace, obsDo, obsSub>>

\* the closure of lines 582-586 is called
UnsubscribeCall(p, k) ==
  /\ Idle(p)
  /\ k \in handles
  /\ Begin(p, [NoOp EXCEPT !.name = "Unsubscribe", !.key = k], NoRet)
  /\ pc' = [pc EXCEPT ![p] = "unsublock"]
  /\ UNCHANGED <<shared, locks, ctor, rest, todo, handles, obsSub>>

\* the closure runs and returns; remaining: the registry it leaves
UnsubscribeWith(p, remaining) ==
  /\ pc[p] = "delete"
  /\ Locked(p)
  /\ subscribers' = remaining
  /\ cancelled' = cancelled \cup {op[p].key}
  /\ writer' = None
  /\ ret' = [ret EXCEPT ![p] = Returned(Empty, None)]
  /\ pc' = [pc EXCEPT ![p] = "idle"]
  /\ UNCHANGED <<current, states, lastSubKey, readers, ctor, rest, op, newState,
                 metadata, todo, handles, ncalls, trace, obsDo, delivered,
                 changes>>

\* mutant: the closure returns without deleting its entry
Unsubscribe_KeepsEntry(p) == UnsubscribeWith(p, subscribers)

\* lines 583-585: delete(m.subscribers, key)
Unsubscribe(p) == UnsubscribeWith(p, subscribers \ {op[p].key})

(***************************************************************************)
(* The queries State(), States() and Exists(state), lines 353-373 and      *)
(* 417-423: one read-locked section each.                                  *)
(***************************************************************************)
QueryCall(p, name, s) ==
  /\ Idle(p)
  /\ Begin(p, [NoOp EXCEPT !.name = name, !.state = s], NoRet)
  /\ pc' = [pc EXCEPT ![p] = "query"]
  /\ UNCHANGED <<shared, locks, ctor, rest, todo, handles, obsSub>>

StateCall(p) == QueryCall(p, "State", Empty)
StatesCall(p) == QueryCall(p, "States", Empty)
ExistsCall(p, s) == QueryCall(p, "Exists", s)

\* the goroutine is in the query name
InQuery(p, name) == pc[p] = "query" /\ op[p].name = name

\* the read-locked section of the query and its return
Query(p, name, r) ==
  /\ InQuery(p, name)
  /\ CanRLock
  /\ ret' = [ret EXCEPT ![p] = r]
  /\ pc' = [pc EXCEPT ![p] = "idle"]
  /\ UNCHANGED <<shared, locks, ctor, rest, op, newState, metadata, todo, handles,
                 ncalls, trace, obsDo, obsSub>>

\* lines 353-358
State(p) == Query(p, "State", Returned(current, None))

\* the slices a range over the keys S can build: every key once, the
\* order not fixed
Orders(S) ==
  {f \in [1..Cardinality(S) -> S] : \A i, j \in DOMAIN f : f[i] = f[j] => i = j}

\* the result of States() is the slice names
StatesWith(p, names) ==
  Query(p, "States", [Returned(Empty, None) EXCEPT !.names = names])

\* mutant: the range loop stops before the last key
States_DropsOne(p) ==
  /\ InQuery(p, "States")
  /\ \E order \in Orders(DOMAIN states) :
       StatesWith(p, SubSeq(order, 1, Len(order) - 1))

\* lines 363-373: the keys of m.states appended to a slice
States(p) ==
  /\ InQuery(p, "States")
  /\ \E order \in Orders(DOMAIN states) : StatesWith(p, order)

\* lines 417-423
Exists(p) ==
  Query(p, "Exists",
        [Returned(Empty, None) EXCEPT !.ok = (op[p].state \in DOMAIN states)])

(***************************************************************************)
(* The mutators Add, AddOrReplace and AddOrMerge, lines 378-414.  Add and  *)
(* AddOrMerge call Exists first and take the write lock afterwards.        *)
(***************************************************************************)
MutatorCall(p, name, s, t, at) ==
  /\ Idle(p)
  /\ Begin(p, [NoOp EXCEPT !.name = name, !.state = s, !.tab = t.map,
                           !.isNil = t.isNil, !.kept = t.kept], NoRet)
  /\ pc' = [pc EXCEPT ![p] = at]
  /\ UNCHANGED <<shared, locks, ctor, rest, todo, handles, obsSub>>

AddCall(p, s, t) == MutatorCall(p, "Add", s, t, "addexists")
AddOrReplaceCall(p, s, t) == MutatorCall(p, "AddOrReplace", s, t, "putlock")
AddOrMergeCall(p, s, t) == MutatorCall(p, "AddOrMerge", s, t, "mergeexists")

\* the Exists call of Add; left: the read-lock holders Exists leaves behind,
\* exists: its result
AddExistsWith(p, left, exists) ==
  /\ pc[p] = "addexists"
  /\ CanRLock
  /\ readers' = left
  /\ IF exists
       THEN /\ ret' = [ret EXCEPT ![p] = Returned(Empty, "exists")]
            /\ pc' = [pc EXCEPT ![p] = "idle"]
       ELSE /\ ret' = ret
            /\ pc' = [pc EXCEPT ![p] = "putlock"]
  /\ UNCHANGED <<shared, writer, ctor, rest, op, newState, metadata, todo, handles,
                 ncalls, trace, obsDo, obsSub>>

\* mutant: Exists returns without RUnlock
AddExists_KeepsRLock(p) ==
  AddExistsWith(p, readers \cup {p}, op[p].state \in DOMAIN states)

\* mutant: Add does not look for the state
AddExists_NeverRejects(p) == AddExistsWith(p, readers, FALSE)

\* lines 379-381: Add returns the error when the state exists
AddExists(p) == AddExistsWith(p, readers, op[p].state \in DOMAIN states)

\* line 403: AddOrMerge chooses its branch
MergeExists(p) ==
  /\ pc[p] = "mergeexists"
  /\ CanRLock
  /\ pc' = [pc EXCEPT ![p] = IF op[p].state \in DOMAIN states
                                THEN "mergelock" ELSE "putlock"]
  /\ UNCHANGED <<shared, locks, ctor, rest, op, newState, metadata, todo, ret,
                 handles, ncalls, trace, obsDo, obsSub>>

\* the map of the call: a Go map is a reference, the entries are those it
\* has when the write section runs
Incoming(p) == IF op[p].kept THEN kept.tab ELSE op[p].tab

\* the map the caller holds on to after the write section at: line 383,
\* 395 or 411 makes the state one of its keys or takes the state away from
\* them, lines 405-407 write the entries into the map the state has
KeptAfter(p, at) ==
  IF at = "put"
    THEN [kept EXCEPT !.names = IF op[p].kept THEN @ \cup {op[p].state}
                                               ELSE @ \ {op[p].state}]
    ELSE IF op[p].state \in kept.names
           THEN [kept EXCEPT !.tab = Incoming(p) @@ @]
           ELSE kept

\* a write section on m.states that leaves the table tab behind, the maps
\* of the states nils being nil; locked: the condition under which the
\* section runs
WriteStates(p, at, locked, tab, nils) ==
  /\ pc[p] = at
  /\ locked
  /\ states' = tab
  /\ nilTabs' = nils
  /\ kept' = KeptAfter(p, at)
  /\ writer' = None
  /\ ret' = [ret EXCEPT ![p] = Returned(Empty, None)]
  /\ pc' = [pc EXCEPT ![p] = "idle"]
  /\ UNCHANGED <<current, subscribers, lastSubKey, readers, ctor, other, op,
                 newState, metadata, todo, handles, ncalls, trace, obsDo, obsSub>>

\* mutant: the assignment makes a new table that has the one state only
Stored_Alone(p) == (op[p].state :> Incoming(p))

\* m.states[state] = transitions: the map of the call is stored as it is
Stored(p) == (op[p].state :> Incoming(p)) @@ states

StoredNil(p) ==
  IF op[p].isNil THEN nilTabs \cup {op[p].state} ELSE nilTabs \ {op[p].state}

\* m.states[state][k] = v for every k, v of the map of the call: the
\* entries are written into the map the state has, which every state that
\* has the same map sees
SameMap(s) == IF s \in kept.names THEN kept.names ELSE {s}

Merged(p) ==
  LET new == Incoming(p) @@ TabOf(states, op[p].state)
  IN [x \in DOMAIN states \cup {op[p].state} |->
        IF x \in SameMap(op[p].state) THEN new ELSE states[x]]

\* mutant: the assignment is made without waiting for the readers to leave
Put_Unlocked(p) == WriteStates(p, "put", writer = p, Stored(p), StoredNil(p))

\* mutant: the assignment keeps the entries the state had
Put_Merges(p) == WriteStates(p, "put", Locked(p), Merged(p), StoredNil(p))

\* lines 382-384, 394-396 and 410-412: m.states[state] = transitions
Put(p) == WriteStates(p, "put", Locked(p), Stored(p), StoredNil(p))

\* line 406 on a nil map: the assignment panics, the write lock still held
MergePanic(p) ==
  /\ pc[p] = "merge"
  /\ Locked(p)
  /\ op[p].state \in nilTabs
  /\ DOMAIN Incoming(p) # {}
  /\ pc' = [pc EXCEPT ![p] = "panicked"]
  /\ UNCHANGED <<shared, locks, ctor, rest, op, newState, metadata, todo, ret,
                 handles, ncalls, trace, obsDo, obsSub>>

\* the loop of lines 405-407 makes an assignment to an entry of a nil map
WritesNilMap(p) == op[p].state \in nilTabs /\ DOMAIN Incoming(p) # {}

\* mutant: the entries of the state are dropped
Merge_Replaces(p) ==
  /\ ~WritesNilMap(p)
  /\ WriteStates(p, "merge", Locked(p), Stored(p), nilTabs)

\* lines 404-408: the new entries are written into the table of the state,
\* which exists because no operation removes a state
Merge(p) ==
  /\ ~WritesNilMap(p)
  /\ WriteStates(p, "merge", Locked(p), Merged(p), nilTabs)

(***************************************************************************)
(* User code that uses the machine: an action or a hook that starts a      *)
(* goroutine calling Do (examples/traffic-light/main.go, lines 14-42), and *)
(* a hook that calls Do itself through its `this *fine.FSM` parameter      *)
(* (README.md, lines 61-62).                                               *)
(***************************************************************************)
\* the lifecycle shapes that are handed the machine
FSMKinds == {"func(*FSM)", "func(*FSM, Metadata)"}

\* an action or a hook has run in the current Do of p
RanUserCode(p) ==
  /\ op[p].name = "Do"
  /\ \E i \in 1..Len(trace[p]) : trace[p][i].kind \in {"action", "@exit", "@enter"}

\* `go func() { this.Do(e) }()` in user code of p: goroutine q calls Do
SpawnedDoCall(p, q, e) ==
  /\ p # q
  /\ RanUserCode(p)
  /\ DoCall(q, e, << >>)

\* mutant: the hook is called inside the write lock of the transition
HookEnter_HoldsLock(p, at, action, hook) ==
  /\ Lookup(states, current, action).kind \in FSMKinds
  /\ DoHookWith(p, at, action, hook, readers, p)

\* a hook that is handed the machine is called (lines 550 and 556)
HookEnter(p, at, action, hook) ==
  /\ Lookup(states, current, action).kind \in FSMKinds
  /\ DoHook(p, at, action, hook)

DoExitHook(p) == HookEnter(p, "exit", "@exit", "exithook")

DoEnterHook(p) == HookEnter(p, "enter", "@enter", "enterhook")

\* the hook calls this.Do(e) on the goroutine of p: the call runs as the
\* frame q, and p goes on when it has returned
HookDoCall(p, q, e) ==
  /\ pc[p] \in {"exithook", "enterhook"}
  /\ p # q
  /\ pc[q] = "idle"
  /\ e \notin LifecycleEvents
  /\ Begin(q, DoOp(e, << >>), NoRet)
  /\ pc' = [pc EXCEPT ![q] = "check",
                      ![p] = IF pc[p] = "exithook" THEN "exitwait" ELSE "enterwait"]
  /\ UNCHANGED <<shared, locks, ctor, rest, todo, handles, obsSub>>

\* the Do the hook called has returned, the hook returns
HookReturn(p, q) ==
  /\ pc[p] \in {"exitwait", "enterwait"}
  /\ p # q
  /\ pc[q] = "idle"
  /\ pc' = [pc EXCEPT ![p] = IF pc[p] = "exitwait" THEN "lock" ELSE "return"]
  /\ UNCHANGED <<shared, locks, ctor, rest, op, newState, metadata, todo, ret,
                 handles, ncalls, trace, obsDo, obsSub>>

(***************************************************************************)
(* A subscriber callback that calls State() on the machine.  The callback  *)
(* runs inside the write lock of Subscribe (lines 577-580) and inside the  *)
(* read lock of the notification loop of Do (lines 481-485).               *)
(***************************************************************************)
\* lines 577-579: the callback is registered and called, m.mu.Lock() held
SubscribeEnter(p) ==
  /\ pc[p] = "register"
  /\ Locked(p)
  /\ subscribers' = subscribers \cup {op[p].key}
  /\ delivered' = [delivered EXCEPT ![op[p].key] = Append(@, current)]
  /\ trace' = [trace EXCEPT ![p] =
                 Append(trace[p], Obs("notify", current, NilAct, NoMeta,
                                      current, op[p].key, << >>))]
  /\ pc' = [pc EXCEPT ![p] = "subcb"]
  /\ UNCHANGED <<current, states, lastSubKey, locks, ctor, rest, op, newState,
                 metadata, todo, ret, handles, ncalls, obsDo, changes, cancelled>>

\* line 580: the callback has returned, Unlock
SubscribeUnlock(p) ==
  /\ pc[p] \in {"subcb", "subcbdone"}
  /\ writer' = None
  /\ pc' = [pc EXCEPT ![p] = "subret"]
  /\ UNCHANGED <<shared, readers, ctor, rest, op, newState, metadata, todo, ret,
                 handles, ncalls, trace, obsDo, obsSub>>

\* line 483: callback(newState) is called, m.mu.RLock() held
DoNotifyEnter(p, k) ==
  /\ pc[p] = "notifying"
  /\ k \in todo[p]
  /\ delivered' = [delivered EXCEPT ![k] = Append(@, newState[p])]
  /\ trace' = [trace EXCEPT ![p] =
                 Append(trace[p], Obs("notify", newState[p], NilAct, NoMeta,
                                      current, k, << >>))]
  /\ todo' = [todo EXCEPT ![p] = @ \ {k}]
  /\ pc' = [pc EXCEPT ![p] = "docb"]
  /\ UNCHANGED <<shared, locks, ctor, rest, op, newState, metadata, ret, handles,
                 ncalls, obsDo, changes, cancelled>>

\* lines 482-485: the callback has returned; the next one, or RUnlock
DoNotifyNext(p) ==
  /\ pc[p] \in {"docb", "docbdone"}
  /\ IF todo[p] = {}
       THEN /\ pc' = [pc EXCEPT ![p] = "enter"]
            /\ readers' = readers \ {p}
       ELSE /\ pc' = [pc EXCEPT ![p] = "notifying"]
            /\ readers' = readers
  /\ UNCHANGED <<shared, writer, ctor, rest, op, newState, metadata, todo, ret,
                 handles, ncalls, trace, obsDo, obsSub>>

\* the callback calls m.State()
CallbackStateCall(p) ==
  /\ pc[p] \in {"subcb", "docb"}
  /\ pc' = [pc EXCEPT ![p] = IF pc[p] = "subcb" THEN "subcbcall" ELSE "docbcall"]
  /\ UNCHANGED <<shared, locks, ctor, rest, op, newState, metadata, todo, ret,
                 handles, ncalls, trace, obsDo, obsSub>>

\* lines 354-357 on the goroutine that runs the callback: RLock blocks
\* while a writer holds the lock or waits for it
CallbackState(p) ==
  /\ pc[p] \in {"subcbcall", "docbcall"}
  /\ CanRLock
  /\ pc' = [pc EXCEPT ![p] = IF pc[p] = "subcbcall" THEN "subcbdone" ELSE "docbdone"]
  /\ UNCHANGED <<shared, locks, ctor, rest, op, newState, metadata, todo, ret,
                 handles, ncalls, trace, obsDo, obsSub>>

(***************************************************************************)
(* A second machine, lines 316-350: every FSM value has its own current,   *)
(* states, mu, lastSubKey and subscribers.  One goroutine calls Subscribe  *)
(* and Do("toggle") on it; it has no hooks.                                *)
(***************************************************************************)
OtherFrame ==
  UNCHANGED <<shared, locks, ctor, nilTabs, kept, perProc, handles, ncalls,
              obsDo, obsSub>>

\* line 575 on the second machine
OtherSubscribeCall ==
  /\ phase = "running"
  /\ other.pc = "idle"
  /\ other.ncalls < MaxOtherCalls
  /\ other' = [other EXCEPT !.lastSubKey = AddInt32(@),
                            !.key = AddInt32(other.lastSubKey),
                            !.pc = "sublock", !.ncalls = @ + 1]
  /\ OtherFrame

\* lines 433-474 on the second machine: toggle is in the table of both
\* states and leads to the other one
OtherDoCall ==
  /\ phase = "running"
  /\ other.pc = "idle"
  /\ other.ncalls < MaxOtherCalls
  /\ other' = [other EXCEPT !.pc = "lock", !.ncalls = @ + 1]
  /\ OtherFrame

\* lines 476 and 577: Lock on the mutex of the second machine
OtherLock ==
  /\ other.pc \in {"sublock", "lock"}
  /\ other.writer = None
  /\ other' = [other EXCEPT !.writer = "h",
                            !.pc = IF other.pc = "lock" THEN "swap" ELSE "register"]
  /\ OtherFrame

\* lines 578-580 on the second machine
OtherRegister ==
  /\ other.pc = "register"
  /\ other' = [other EXCEPT
                 !.subscribers = @ \cup {other.key},
                 !.calls = Append(@, [key |-> other.key, st |-> other.current]),
                 !.writer = None, !.pc = "idle"]
  /\ OtherFrame

\* lines 477-478 on the second machine
OtherSwap ==
  /\ other.pc = "swap"
  /\ other' = [other EXCEPT !.current = OtherStates[other.current].toggle,
                            !.writer = None, !.pc = "notify"]
  /\ OtherFrame

\* lines 481-494 on the second machine: the loop calls its subscribers
OtherNotify ==
  /\ other.pc = "notify"
  /\ other.writer = None
  /\ \E order \in Orders(other.subscribers) :
       other' = [other EXCEPT
                  !.calls = @ \o [i \in DOMAIN order |->
                                    [key |-> order[i], st |-> other.current]],
                  !.pc = "idle"]
  /\ OtherFrame

OtherStep ==
  \/ OtherSubscribeCall \/ OtherDoCall \/ OtherLock \/ OtherRegister
  \/ OtherSwap \/ OtherNotify

(***************************************************************************)
(* Specifications.                                                         *)
(***************************************************************************)
Construct(names) == \E init \in names : Machine(init) \/ MachinePanic(init)

Step(p) ==
  \/ DoCheck(p) \/ DoAct(p) \/ DoReread(p) \/ DoCompare(p) \/ DoMeta(p)
  \/ DoExit(p) \/ LockAnnounce(p) \/ DoSwap(p) \/ DoNotifyBegin(p)
  \/ (\E k \in Keys : DoNotifyOne(p, k))
  \/ DoEnter(p) \/ DoReturn(p)
  \/ SubscribeRegister(p) \/ SubscribeReturn(p) \/ Unsubscribe(p)

\* one caller, every event and argument list
NextSeq ==
  \/ Construct(InitialNames)
  \/ \E p \in SeqProcs :
       \/ \E e \in Events, args \in ArgLists :
            DoCall(p, e, args) \/ DoLifecycleEvent(p, e, args)
       \/ SubscribeCall(p)
       \/ (\E k \in Keys : UnsubscribeCall(p, k))
       \/ Step(p)

SpecSeq == Init /\ [][NextSeq]_vars

\* concurrent callers
Next ==
  \/ Construct(ConcInitialNames)
  \/ \E p \in Procs :
       \/ \E e \in ConcEvents, args \in ConcArgLists :
            DoCall(p, e, args) \/ DoLifecycleEvent(p, e, args)
       \/ SubscribeCall(p)
       \/ (\E k \in Keys : UnsubscribeCall(p, k))
       \/ Step(p)

Spec == Init /\ [][Next]_vars

\* concurrent callers of Do, Subscribe, the unsubscribe closures, the
\* queries and the mutators
MutStep(p) ==
  \/ State(p) \/ States(p) \/ Exists(p)
  \/ AddExists(p) \/ MergeExists(p) \/ Put(p) \/ Merge(p)

\* at most limit calls, with the events, state names and tables given
MutNext(limit, events, names, tabs) ==
  \/ Construct(ConcInitialNames)
  \/ \E p \in Procs :
       \/ \E e \in events : ncalls < limit /\ DoCall(p, e, << >>)
       \/ ncalls < limit /\ lastSubKey < MaxMutSubs /\ SubscribeCall(p)
       \/ \E k \in Keys : ncalls < limit /\ UnsubscribeCall(p, k)
       \/ ncalls < limit /\ StateCall(p)
       \/ ncalls < limit /\ StatesCall(p)
       \/ \E s \in names : ncalls < limit /\ ExistsCall(p, s)
       \/ \E s \in names, t \in tabs : ncalls < limit /\ AddCall(p, s, t)
       \/ \E s \in names, t \in tabs :
            ncalls < limit /\ AddOrReplaceCall(p, s, t)
       \/ \E s \in names, t \in tabs :
            ncalls < limit /\ AddOrMergeCall(p, s, t)
       \/ Step(p)
       \/ MutStep(p)

NextMut == MutNext(MaxMutCalls, MutEvents, MutNames, MutTabs)

SpecMut == Init /\ [][NextMut]_vars

\* Subscribe, the unsubscribe closures and Do on the machine late in its life
NextKeys ==
  \E p \in Procs :
    \/ ncalls < MaxKeyCalls /\ SubscribeIssue(p)
    \/ \E k \in Keys : ncalls < MaxKeyCalls /\ UnsubscribeCall(p, k)
    \/ \E e \in KeyEvents : ncalls < MaxKeyCalls /\ DoCall(p, e, << >>)
    \/ Step(p)

SpecKeys == InitKeys /\ [][NextKeys]_vars

\* two machines, each with its own caller
NextTwo ==
  \/ Construct(ConcInitialNames)
  \/ \E p \in SeqProcs :
       \/ \E e \in TwoEvents : ncalls < MaxTwoCalls /\ DoCall(p, e, << >>)
       \/ ncalls < MaxTwoCalls /\ SubscribeCall(p)
       \/ \E k \in Keys : ncalls < MaxTwoCalls /\ UnsubscribeCall(p, k)
       \/ Step(p)
  \/ OtherStep

SpecTwo == Init /\ [][NextTwo]_vars

\* one caller, and tables with values of no legal shape
NextBad ==
  \/ Construct(ConcInitialNames)
  \/ \E p \in SeqProcs :
       \/ \E e \in BadEvents : ncalls < MaxBadCalls /\ DoCall(p, e, << >>)
       \/ ncalls < MaxBadCalls /\ lastSubKey < MaxMutSubs /\ SubscribeCall(p)
       \/ \E k \in Keys : ncalls < MaxBadCalls /\ UnsubscribeCall(p, k)
       \/ \E s \in BadNames, t \in BadTabs :
            ncalls < MaxBadCalls /\ AddOrReplaceCall(p, s, t)
       \/ Step(p)
       \/ Put(p)

SpecBad == Init /\ [][NextBad]_vars

\* one caller that gives the machine a map it has given it before
NextShare ==
  \/ Construct(ConcInitialNames)
  \/ \E p \in SeqProcs :
       \/ \E e \in ShareEvents : ncalls < MaxShareCalls /\ DoCall(p, e, << >>)
       \/ ncalls < MaxShareCalls /\ lastSubKey < MaxMutSubs /\ SubscribeCall(p)
       \/ \E k \in Keys : ncalls < MaxShareCalls /\ UnsubscribeCall(p, k)
       \/ \E s \in ShareNames, t \in ShareTabs :
            ncalls < MaxShareCalls /\ AddOrReplaceCall(p, s, t)
       \/ \E s \in ShareNames, t \in ShareTabs :
            ncalls < MaxShareCalls /\ AddOrMergeCall(p, s, t)
       \/ Step(p)
       \/ MergeExists(p) \/ Put(p) \/ Merge(p)

SpecShare == Init /\ [][NextShare]_vars

\* the mutators given nil and empty maps as well
NextNil ==
  \/ MutNext(MaxNilCalls, NilEvents, NilNames, NilTabs)
  \/ \E p \in Procs : MergePanic(p)

SpecNil == Init /\ [][NextNil]_vars

\* one caller whose actions and hooks start the other goroutine's Do, or
\* call Do themselves
HookStep(p) ==
  \/ DoExitHook(p) \/ DoEnterHook(p)
  \/ \E q \in Procs \ SeqProcs :
       \/ (\E e \in HookEvents : HookDoCall(p, q, e))
       \/ HookReturn(p, q)

NextHook ==
  \/ Construct(ConcInitialNames)
  \/ \E p \in SeqProcs :
       \/ \E e \in HookEvents : ncalls < MaxHookCalls /\ DoCall(p, e, << >>)
       \/ ncalls < MaxHookCalls /\ lastSubKey < MaxMutSubs /\ SubscribeCall(p)
       \/ \E k \in Keys : ncalls < MaxHookCalls /\ UnsubscribeCall(p, k)
       \/ \E q \in Procs \ SeqProcs, e \in HookEvents :
            ncalls < MaxHookCalls /\ SpawnedDoCall(p, q, e)
       \/ HookStep(p)
  \/ \E p \in Procs : Step(p)

\* the Go scheduler runs every goroutine that can take a step
SpecHook ==
  /\ Init /\ [][NextHook]_vars
  /\ \A p \in Procs : WF_vars(Step(p))
  /\ \A p \in SeqProcs : WF_vars(HookStep(p))

\* concurrent callers whose subscriber callbacks may call State()
ReentStep(p) ==
  \/ DoCheck(p) \/ DoAct(p) \/ DoCompare(p) \/ DoMeta(p)
  \/ DoExit(p) \/ LockAnnounce(p) \/ DoSwap(p) \/ DoNotifyBegin(p)
  \/ (\E k \in Keys : DoNotifyEnter(p, k))
  \/ CallbackStateCall(p) \/ CallbackState(p) \/ DoNotifyNext(p)
  \/ DoEnter(p) \/ DoReturn(p)
  \/ SubscribeEnter(p) \/ SubscribeUnlock(p) \/ SubscribeReturn(p)
  \/ Unsubscribe(p)

NextReent ==
  \/ Construct(ConcInitialNames)
  \/ \E p \in Procs :
       \/ \E e \in ReentEvents : ncalls < MaxMutCalls /\ DoCall(p, e, << >>)
       \/ ncalls < MaxMutCalls /\ SubscribeCall(p)
       \/ \E k \in Keys : ncalls < MaxMutCalls /\ UnsubscribeCall(p, k)
       \/ ReentStep(p)

SpecReent == Init /\ [][NextReent]_vars

NextLive == MutNext(MaxLiveCalls, LiveEvents, LiveNames, MutTabs)

\* the Go scheduler runs every goroutine that can take a step
SpecLive ==
  Init /\ [][NextLive]_vars /\ \A p \in Procs : WF_vars(Step(p) \/ MutStep(p))

(***************************************************************************)
(* Vocabulary of the properties.                                           *)
(***************************************************************************)
\* the last call of p was a Do and has returned
DoDone(p) == op[p].name = "Do" /\ pc[p] = "idle" /\ ret[p].set

\* the lifecycle shapes that are handed the Metadata
MetaKinds == {"func(Metadata)", "func(*FSM, Metadata)"}

\* the steps of p's call other than the run of the action itself
Lifecycle(p) ==
  LET NotAction(r) == r.kind # "action" IN SelectSeq(trace[p], NotAction)

\* the callback invocations of p's call
Notifications(p) ==
  LET IsNotify(r) == r.kind = "notify" IN SelectSeq(trace[p], IsNotify)

\* how often p's call invoked the callback of key k
NotifyCount(p, k) ==
  Cardinality({i \in 1..Len(trace[p]) :
                 trace[p][i].kind = "notify" /\ trace[p][i].key = k})

Swapped(p) == \E i \in 1..Len(trace[p]) : trace[p][i].kind = "swap"

(***************************************************************************)
(* C1: a Do whose dispatch result differs from the current state, alone on *)
(* the machine, performs exactly these steps in this order: the @exit hook *)
(* of the old state (m.current still the old name), the swap to the new    *)
(* name, one call of every registered subscriber with the new name, the    *)
(* @enter hook of the new state (m.current already the new name).          *)
(***************************************************************************)
C1_TransitionOrder ==
  \A p \in Procs :
    (DoDone(p) /\ ret[p].err = None /\ newState[p] # pre[p]) =>
      LET old == pre[p]
          new == newState[p]
          t == Lifecycle(p)
          x == IF Lookup(states, old, "@exit").kind # "nil" THEN 1 ELSE 0
          y == IF Lookup(states, new, "@enter").kind # "nil" THEN 1 ELSE 0
          n == Cardinality(subscribers)
      IN /\ Len(t) = x + 1 + n + y
         /\ x = 1 => /\ t[1].kind = "@exit"
                     /\ t[1].st = old
                     /\ t[1].hook = Lookup(states, old, "@exit")
                     /\ t[1].cur = old
         /\ t[x + 1].kind = "swap" /\ t[x + 1].st = new
         /\ \A i \in 1..n : /\ t[x + 1 + i].kind = "notify"
                            /\ t[x + 1 + i].st = new
                            /\ t[x + 1 + i].key \in subscribers
         /\ \A i, j \in 1..n : i # j => t[x + 1 + i].key # t[x + 1 + j].key
         /\ y = 1 => /\ t[Len(t)].kind = "@enter"
                     /\ t[Len(t)].st = new
                     /\ t[Len(t)].hook = Lookup(states, new, "@enter")
                     /\ t[Len(t)].cur = new

\* a transition a -> b has completed with two subscribers registered
C1_Witness ==
  \E p \in Procs :
    /\ DoDone(p) /\ pre[p] = "a" /\ newState[p] = "b"
    /\ Cardinality(subscribers) = 2
    /\ Len(Lifecycle(p)) = 5

(***************************************************************************)
(* C2: without concurrent or reentrant calls, Do of an event that is in    *)
(* the table of the current state s returns a nil error and the name that  *)
(* State() returns next; the name is the constant of a string action, the  *)
(* result of a function returning a state, and s for a nil action and for  *)
(* a function without result.                                              *)
(***************************************************************************)
C2_DoResult ==
  \A p \in Procs :
    (DoDone(p) /\ op[p].event \notin LifecycleEvents
               /\ op[p].event \in DOMAIN preTab[p]) =>
      LET act == preTab[p][op[p].event]
      IN /\ ret[p].err = None
         /\ ret[p].state = current
         /\ act.kind \in {"string", "func() string", "func(...) string"}
              => ret[p].state = act.to
         /\ act.kind \in {"nil", "func()", "func(...)"}
              => ret[p].state = pre[p]
         /\ act.kind \in ActionKinds

\* Do("gov", "x") has returned "c" from state a
C2_Witness ==
  \E p \in Procs :
    /\ DoDone(p) /\ op[p].event = "gov" /\ op[p].args = <<"x">>
    /\ pre[p] = "a" /\ ret[p].state = "c" /\ ret[p].err = None

(***************************************************************************)
(* C3: Do of an event that is not in the table of the current state s      *)
(* returns an error, runs no action and no hook, notifies nobody and       *)
(* leaves m.current at s.                                                  *)
(***************************************************************************)
C3_Rejected ==
  \A p \in Procs :
    (DoDone(p) /\ op[p].event \notin DOMAIN preTab[p]) =>
      /\ ret[p].err # None
      /\ trace[p] = << >>

C3_RejectStep ==
  \A p \in Procs :
    (pc[p] = "check" /\ pc'[p] = "idle") =>
      /\ ~HasAction(states, current, op[p].event)
      /\ current' = current
      /\ states' = states
      /\ subscribers' = subscribers
      /\ delivered' = delivered

C3_UnknownEventRejected == [](C3_Rejected) /\ [][C3_RejectStep]_vars

\* Do("missing") has been refused in state b, which another Do had reached
C3_Witness ==
  \E p \in Procs :
    /\ DoDone(p) /\ op[p].event = "missing" /\ pre[p] = "b"
    /\ ret[p].err = "noaction" /\ current = "b"

(***************************************************************************)
(* C4: Do("@enter") and Do("@exit") return an error in every state,        *)
(* whether or not the state defines the hook; the hook does not run,       *)
(* m.current stays and no subscriber is notified.                          *)
(***************************************************************************)
C4_Refused ==
  \A p \in Procs :
    (op[p].name = "Do" /\ op[p].event \in LifecycleEvents) =>
      /\ pc[p] = "idle"
      /\ ret[p].set
      /\ ret[p].err # None
      /\ trace[p] = << >>

\* the step of a refused call: a call is counted and nobody moves
C4_RefuseStep ==
  (ncalls' = ncalls + 1 /\ pc' = pc) =>
    /\ current' = current
    /\ states' = states
    /\ subscribers' = subscribers
    /\ delivered' = delivered

C5_NoOpDoIsSilent ==
  \A p \in Procs :
    (DoDone(p) /\ op[p].event \notin LifecycleEvents
               /\ op[p].event \in DOMAIN preTab[p]
               /\ preTab[p][op[p].event] \in {NilAct, Str(pre[p])}) =>
      /\ ret[p].err = None
      /\ Lifecycle(p) = << >>

(***************************************************************************)
(* C6: in a state-changing Do(event, args) without a concurrent call, the  *)
(* @exit hook of the old state and the @enter hook of the new state get    *)
(* the same Metadata: From the state before the Do, To the state after     *)
(* it, Event the event and Args the arguments given to Do.                 *)
(***************************************************************************)
C6_HooksGetMetadata ==
  \A p \in Procs :
    (DoDone(p) /\ Swapped(p)) =>
      \A i \in 1..Len(trace[p]) :
        (trace[p][i].kind \in LifecycleEvents /\ trace[p][i].hook.kind \in MetaKinds) =>
          trace[p][i].meta = [From |-> pre[p], To |-> current,
                              Event |-> op[p].event, Args |-> op[p].args]

\* Do("next", "x") went from a to b: a's @exit and b's @enter both take Metadata
C6_Witness ==
  \E p \in Procs :
    /\ DoDone(p) /\ op[p].event = "next" /\ op[p].args = <<"x">>
    /\ pre[p] = "a" /\ current = "b"
    /\ \E i, j \in 1..Len(trace[p]) :
         /\ trace[p][i].kind = "@exit" /\ trace[p][i].hook.kind \in MetaKinds
         /\ trace[p][j].kind = "@enter" /\ trace[p][j].hook.kind \in MetaKinds

(***************************************************************************)
(* C7: right after Machine(initial, states) with initial in the table,     *)
(* m.current is initial, the @enter hook of initial has run once with      *)
(* Metadata{To: initial}, no @exit hook has run and nobody was notified.   *)
(***************************************************************************)
C7_Construction ==
  (phase = "running" /\ ncalls = 0) =>
    /\ current = initial
    /\ subscribers = {}
    /\ \A k \in Keys : delivered[k] = << >>
    /\ \A p \in Procs : trace[p] = << >>
    /\ LET hook == Lookup(states, initial, "@enter")
       IN IF hook.kind = "nil"
            THEN ctorTrace = << >>
            ELSE /\ Len(ctorTrace) = 1
                 /\ ctorTrace[1].kind = "@enter"
                 /\ ctorTrace[1].st = initial
                 /\ ctorTrace[1].hook = hook
                 /\ hook.kind \in MetaKinds =>
                      ctorTrace[1].meta = [From |-> Empty, To |-> initial,
                                           Event |-> Empty, Args |-> << >>]

\* the machine was built on b, whose @enter takes the Metadata
C7_Witness ==
  /\ phase = "running" /\ ncalls = 0 /\ initial = "b"
  /\ Len(ctorTrace) = 1 /\ ctorTrace[1].hook.kind \in MetaKinds

(***************************************************************************)
(* C8: Subscribe calls the callback exactly once, before it returns, with  *)
(* the state that is current at the moment of registration, whatever Do    *)
(* calls run beside it.                                                    *)
(***************************************************************************)
C8_Delivered ==
  \A p \in Procs :
    op[p].name = "Subscribe" =>
      LET k == op[p].key
      IN /\ pc[p] \in {"sublock", "register"} =>
              /\ trace[p] = << >>
              /\ delivered[k] = << >>
              /\ k \notin subscribers
         /\ pc[p] \in {"subret", "idle"} =>
              /\ Len(trace[p]) = 1
              /\ trace[p][1].kind = "notify"
              /\ trace[p][1].key = k
              /\ trace[p][1].st = trace[p][1].cur
              /\ delivered[k] # << >>
              /\ delivered[k][1] = trace[p][1].st

\* the registering step: the callback gets the m.current of that moment
C8_RegisterStep ==
  \A p \in Procs :
    (pc[p] = "register" /\ pc'[p] = "subret") =>
      /\ current' = current
      /\ delivered'[op[p].key] = << current >>
      /\ subscribers' = subscribers \cup {op[p].key}

C8_SubscribeDeliversCurrent == [](C8_Delivered) /\ [][C8_RegisterStep]_vars

\* a Subscribe has registered between the swap and the notification of a Do
C8_Witness ==
  \E p, q \in Procs :
    /\ op[p].name = "Subscribe" /\ pc[p] = "subret"
    /\ pc[q] = "notify" /\ newState[q] = "b"
    /\ delivered[op[p].key] = << "b" >>

(***************************************************************************)
(* C9 as claimed: every subscriber that is registered when the swap of a   *)
(* state-changing Do commits gets exactly one notification for that        *)
(* transition, carrying its new state name.                                *)
(***************************************************************************)
NotifyDone(p) ==
  /\ op[p].name = "Do"
  /\ Swapped(p)
  /\ pc[p] \in {"enter", "return", "idle"}

C10_NotifiedOnlyOnChange ==
  \A p \in Procs :
    (op[p].name = "Do" /\ Notifications(p) # << >>) => swapChanged[p]

(***************************************************************************)
(* C11: once an unsubscribe closure has returned, its callback is not      *)
(* called again by any notification loop that begins afterwards; the       *)
(* closure removes its own entry only, so every other subscriber stays     *)
(* registered and is called by every later notification loop.              *)
(***************************************************************************)
C11_Registry ==
  /\ subscribers \cap cancelled = {}
  /\ (handles \ cancelled) \subseteq subscribers
  /\ \A p \in Procs :
       pc[p] = "notifying" => /\ notifySubs[p] = subscribers
                              /\ todo[p] \cap cancelled = {}
  /\ \A p \in Procs :
       NotifyDone(p) => \A k \in notifySubs[p] : NotifyCount(p, k) = 1

C11_CancelStep ==
  /\ \A k \in Keys : delivered'[k] # delivered[k] => k \notin cancelled
  /\ \A p \in Procs :
       (pc[p] = "delete" /\ pc'[p] = "idle") =>
         /\ subscribers' = subscribers \ {op[p].key}
         /\ cancelled' = cancelled \cup {op[p].key}
  /\ \A p \in Procs :
       (pc[p] = "notify" /\ pc'[p] # "notify") =>
         /\ notifySubs'[p] = subscribers
         /\ notifySubs'[p] \cap cancelled = {}

C11_CancelledNeverCalled == [](C11_Registry) /\ [][C11_CancelStep]_vars

\* a notification loop runs after one of two subscribers was cancelled: the
\* other one is still to be called, the cancelled one is not
C11_Witness ==
  \E p \in Procs :
    /\ pc[p] = "notifying"
    /\ cancelled # {}
    /\ todo[p] # {}
    /\ todo[p] = handles \ cancelled

(***************************************************************************)
(* C12: a subscriber never gets the notification of a transition whose     *)
(* swap was committed before its Subscribe registered it: every callback a *)
(* Do calls belongs to a subscriber that was registered at its swap.       *)
(***************************************************************************)
C12_OnlyLaterTransitions ==
  \A p \in Procs :
    op[p].name = "Do" =>
      \A i \in 1..Len(trace[p]) :
        trace[p][i].kind = "notify" => trace[p][i].key \in commitSubs[p]

(***************************************************************************)
(* C13: a Do that begins after the swap of another Do has committed runs   *)
(* no @exit hook, swap or notification before that other Do has finished   *)
(* its notifications and its @enter hook.                                  *)
(***************************************************************************)
C13_NotInterleaved ==
  \A q \in Procs :
    (op[q].name = "Do" /\ inFlight[q] # {}) => Lifecycle(q) = << >>

(***************************************************************************)
(* C14: no data race between concurrent Do, Subscribe, unsubscribe, query  *)
(* and mutator calls.  Every section that reads m.current, m.states or     *)
(* m.subscribers runs with the read lock (or inside the write lock), every *)
(* section that writes one of them runs as the only holder of the write    *)
(* lock, and nothing else changes them.                                    *)
(***************************************************************************)
\* the positions whose step is a read-locked section
ReadPcs == {"check", "do", "reread", "compare", "meta", "exit", "enter",
            "notify", "return", "query", "addexists", "mergeexists"}
\* the positions whose step is a write-locked section
WritePcs == {"swap", "register", "delete", "put", "merge"}

\* p takes a step
Moves(p) == pc'[p] # pc[p] \/ todo'[p] # todo[p]

C14_Holders ==
  /\ \A p \in readers : pc[p] \in {"notifying", "panicked"}
  /\ writer # None => pc[writer] \in WritePcs

C14_AccessStep ==
  /\ \A p \in Procs :
       Moves(p) =>
         CASE pc[p] \in ReadPcs -> writer = None
           [] pc[p] = "notifying" -> p \in readers
           [] pc[p] \in WritePcs ->
                writer = p /\ readers = {} /\ writer' = None
           [] OTHER -> UNCHANGED <<current, states, subscribers>>
  /\ (phase = "running" /\ <<current, states, subscribers>>' #
                             <<current, states, subscribers>>) =>
       \E p \in Procs :
         pc[p] \in WritePcs /\ Moves(p) /\ writer = p /\ readers = {}

C14_NoDataRace == [](C14_Holders) /\ [][C14_AccessStep]_vars

\* a mutator waits for the write lock while a notification loop reads
C14_Witness ==
  /\ writer # None
  /\ readers # {}
  /\ op[writer].name \in {"Add", "AddOrReplace", "AddOrMerge"}
  /\ pc[writer] \in {"put", "merge"}

(***************************************************************************)
(* C15 as claimed: the current state name is a key of the state table in   *)
(* every state of the machine.                                             *)
(***************************************************************************)
C15_CurrentInTable == phase = "running" => current \in DOMAIN states

(***************************************************************************)
(* C15 as amended: the current state name is a key of the state table when *)
(* Machine returns; no call removes a key; and the only step after which   *)
(* the current state is not a key is the swap of a Do whose action yielded *)
(* a name that is not in the table.                                        *)
(***************************************************************************)
C15_Constructed ==
  (phase = "running" /\ ncalls = 0) => current \in DOMAIN states

C15_LeaveStep ==
  /\ DOMAIN states \subseteq DOMAIN states'
  /\ (phase = "running" /\ current \in DOMAIN states
        /\ current' \notin DOMAIN states') =>
       \E p \in Procs :
         /\ pc[p] = "swap" /\ Moves(p)
         /\ newState[p] \notin DOMAIN states
         /\ current' = newState[p]

C15_InTableUnlessSwappedOut == [](C15_Constructed) /\ [][C15_LeaveStep]_vars

\* a Do has made a name current that is not in the table, and a mutator
\* has added the name afterwards
C15_Witness ==
  \E p, q \in Procs :
    /\ DoDone(p) /\ Swapped(p) /\ newState[p] = "broken"
    /\ op[q].name \in {"Add", "AddOrReplace", "AddOrMerge"}
    /\ pc[q] = "idle" /\ ret[q].set /\ ret[q].err = None
    /\ current = "broken"
    /\ "broken" \in DOMAIN states

(***************************************************************************)
(* C16: Do does not validate the target.  The swap makes the name the      *)
(* action yielded the current state whether it is in the table or not, and *)
(* such a Do returns a nil error after running its steps in the usual      *)
(* order with the notifications carrying that name; a Do that finds the    *)
(* current state absent from the table returns the no-such-action error    *)
(* and changes nothing.                                                    *)
(***************************************************************************)
C16_UnknownTargetDone ==
  \A p \in Procs :
    (DoDone(p) /\ Swapped(p) /\ newState[p] \notin DOMAIN states) =>
      /\ ret[p].err = None
      /\ \A i, j \in 1..Len(trace[p]) :
           /\ (trace[p][i].kind = "@exit" /\ trace[p][j].kind = "swap") => i < j
           /\ (trace[p][i].kind = "swap" /\ trace[p][j].kind = "notify") => i < j
           /\ trace[p][i].kind \in {"swap", "notify"} =>
                trace[p][i].st = newState[p]
      /\ \A k \in notifySubs[p] : NotifyCount(p, k) = 1

C16_Step ==
  \A p \in Procs :
    /\ (pc[p] = "swap" /\ Moves(p)) =>
         /\ current' = newState[p]
         /\ pc'[p] = "notify"
    /\ (pc[p] = "check" /\ Moves(p) /\ current \notin DOMAIN states) =>
         /\ pc'[p] = "idle"
         /\ ret'[p] = Returned(Empty, "noaction")
         /\ trace'[p] = << >>
         /\ UNCHANGED <<current, states, subscribers>>

C17_UserCodeStep ==
  \A p \in Procs :
    (/\ Len(trace'[p]) > Len(trace[p])
     /\ trace'[p][Len(trace'[p])].kind \in {"action", "@exit", "@enter"}) =>
      /\ p \notin readers'
      /\ writer' # p

C17_SpawnedDoReturns ==
  /\ [][C17_UserCodeStep]_vars
  /\ \A p \in Procs :
       (op[p].name = "Do" /\ pc[p] # "idle") ~> DoDone(p)

\* the outer Do is about to take the write lock for its swap while the Do
\* of the goroutine its @exit hook started holds it
C17_Witness ==
  \E p \in SeqProcs, q \in Procs \ SeqProcs :
    /\ RanUserCode(p)
    /\ pc[p] = "lock"
    /\ op[q].name = "Do"
    /\ pc[q] = "swap"
    /\ writer = q

(***************************************************************************)
(* C18: the write lock is never held while a subscriber callback runs,     *)
(* and a callback that calls back into the machine is never blocked: not   *)
(* in the first delivery of Subscribe, not in the notification of a Do,    *)
(* not while another caller waits for the write lock.                      *)
(***************************************************************************)
C18_CallbackNeverBlocked ==
  \A p \in Procs :
    /\ pc[p] \in {"subcb", "subcbcall", "subcbdone",
                   "docb", "docbcall", "docbdone"} => writer # p
    /\ pc[p] \in {"subcbcall", "docbcall"} => CanRLock

InHook(p) == pc[p] \in {"exithook", "enterhook", "exitwait", "enterwait"}

C19_HookHoldsNoLock ==
  \A p \in Procs : InHook(p) => (p \notin readers /\ writer # p)

C20_EveryCallReturns ==
  \A p \in Procs : (pc[p] # "idle") ~> (pc[p] = "idle" /\ ret[p].set)

\* a goroutine waits for the read lock behind a mutator that has called Lock
C20_Witness ==
  \E p, q \in Procs :
    /\ p # q
    /\ pc[p] \in ReadPcs
    /\ writer = q
    /\ op[q].name \in {"Add", "AddOrReplace", "AddOrMerge"}

(***************************************************************************)
(* C21: Add on a name that is no key of the table stores exactly the       *)
(* transitions it was given under that name, changes no other entry and    *)
(* returns a nil error; Add on a name that is a key returns a non-nil      *)
(* error and leaves the whole table as it was.  The name is looked up by   *)
(* the Exists call of Add.                                                 *)
(***************************************************************************)
\* the entries of the table other than that of s stay as they are
OthersKept(s) ==
  /\ DOMAIN states' = DOMAIN states \cup {s}
  /\ \A x \in DOMAIN states \ {s} : states'[x] = states[x]
  /\ nilTabs' \ {s} = nilTabs \ {s}

TableKept == states' = states /\ nilTabs' = nilTabs

\* the goroutine finishes the write section of the mutator name
Wrote(p, name) == op[p].name = name /\ pc[p] \in {"put", "merge"} /\ pc'[p] = "idle"

C21_Step(p) ==
  /\ pc[p] = "addexists" /\ pc'[p] # pc[p] =>
       IF op[p].state \in DOMAIN states
         THEN /\ pc'[p] = "idle"
              /\ ret'[p].set /\ ret'[p].err # None
              /\ TableKept
         ELSE pc'[p] = "putlock" /\ TableKept
  /\ op[p].name = "Add" /\ pc[p] = "putlock" /\ pc'[p] # pc[p] =>
       pc'[p] = "put" /\ TableKept
  /\ Wrote(p, "Add") =>
       /\ states'[op[p].state] = op[p].tab
       /\ (op[p].state \in nilTabs') = op[p].isNil
       /\ OthersKept(op[p].state)
       /\ ret'[p] = Returned(Empty, None)

C21_AddInsertsOrRejects == [][\A p \in Procs : C21_Step(p)]_vars

\* one Add has been refused and another has stored its table
C21_Witness ==
  \E p, q \in Procs :
    /\ op[p].name = "Add" /\ pc[p] = "idle" /\ ret[p].err = "exists"
    /\ op[q].name = "Add" /\ pc[q] = "idle" /\ ret[q].set /\ ret[q].err = None
    /\ op[q].state \in DOMAIN states /\ states[op[q].state] = op[q].tab

(***************************************************************************)
(* C22: AddOrReplace stores the table it was given in place of the one the *)
(* name had: an event or hook the old table had and the new one has not is *)
(* gone.  A Do of such an event that finds the replaced state current      *)
(* returns an error and leaves the current state as it was.                *)
(***************************************************************************)
C22_Step(p) ==
  /\ Wrote(p, "AddOrReplace") =>
       /\ states'[op[p].state] = op[p].tab
       /\ (op[p].state \in nilTabs') = op[p].isNil
       /\ OthersKept(op[p].state)
       /\ ret'[p] = Returned(Empty, None)
  /\ /\ op[p].name = "Do" /\ pc[p] = "check" /\ pc'[p] # pc[p]
     /\ ~HasAction(states, current, op[p].event)
     => /\ pc'[p] = "idle"
        /\ ret'[p].set /\ ret'[p].err # None
        /\ current' = current

C22_ReplacesWholesale == [][\A p \in Procs : C22_Step(p)]_vars

\* the table of the current state has been replaced and a Do of an event
\* only the old table had has been refused
C22_Witness ==
  \E p, q \in Procs :
    /\ op[q].name = "AddOrReplace" /\ pc[q] = "idle" /\ ret[q].set
    /\ op[q].state = current /\ states[current] = op[q].tab
    /\ op[p].name = "Do" /\ pc[p] = "idle" /\ ret[p].err = "noaction"
    /\ op[p].event \in DOMAIN InitialStates[current] \ DOMAIN op[q].tab

(***************************************************************************)
(* C23: AddOrMerge on a name that is a key leaves under that name the      *)
(* union of the old and the new table, the new value where both have the   *)
(* key and the old value of every other old key; on a name that is no key  *)
(* it stores the table it was given, as AddOrReplace does.  The write      *)
(* section of every AddOrMerge ends in one of these two ways.              *)
(***************************************************************************)
C23_Step(p) ==
  /\ op[p].name = "AddOrMerge" /\ pc[p] = "merge" /\ pc'[p] # pc[p] =>
       /\ pc'[p] = "idle"
       /\ DOMAIN states'[op[p].state] =
            DOMAIN states[op[p].state] \cup DOMAIN op[p].tab
       /\ \A e \in DOMAIN states'[op[p].state] :
            states'[op[p].state][e] =
              IF e \in DOMAIN op[p].tab THEN op[p].tab[e]
                                        ELSE states[op[p].state][e]
       /\ OthersKept(op[p].state)
       /\ ret'[p] = Returned(Empty, None)
  /\ op[p].name = "AddOrMerge" /\ pc[p] = "put" /\ pc'[p] # pc[p] =>
       /\ pc'[p] = "idle"
       /\ states'[op[p].state] = op[p].tab
       /\ OthersKept(op[p].state)
       /\ ret'[p] = Returned(Empty, None)

C23_MergesUnion == [][\A p \in Procs : C23_Step(p)]_vars

(***************************************************************************)
(* C24: whatever the mutators have done before, States returns a slice     *)
(* that holds every key of the table and nothing else, each key once, and  *)
(* Exists returns true for a name exactly when the name is a key.          *)
(***************************************************************************)
C24_Step(p) ==
  /\ InQuery(p, "States") /\ pc'[p] = "idle" =>
       /\ {ret'[p].names[i] : i \in DOMAIN ret'[p].names} = DOMAIN states
       /\ Len(ret'[p].names) = Cardinality(DOMAIN states)
  /\ InQuery(p, "Exists") /\ pc'[p] = "idle" =>
       ret'[p].ok = (op[p].state \in DOMAIN states)

C24_QueriesAgreeWithKeys == [][\A p \in Procs : C24_Step(p)]_vars

\* a state has been added, and States and Exists have reported it
C24_Witness ==
  \E p, q \in Procs :
    /\ op[p].name = "States" /\ pc[p] = "idle" /\ ret[p].set
    /\ \E i \in DOMAIN ret[p].names : ret[p].names[i] \notin DOMAIN InitialStates
    /\ op[q].name = "Exists" /\ pc[q] = "idle" /\ ret[q].set /\ ret[q].ok
    /\ op[q].state \notin DOMAIN InitialStates

(***************************************************************************)
(* C25: the state name Do returns together with an error, for a lifecycle  *)
(* event or for an event the table of the current state has not, is the    *)
(* current state name: with one caller, what State() returns next.         *)
(***************************************************************************)
C25_ErrorCarriesCurrent ==
  \A p \in SeqProcs : DoDone(p) /\ ret[p].err # None => ret[p].state = current

(***************************************************************************)
(* C26: whenever no Do is in progress, the state delivered last to every   *)
(* subscriber that is still registered is the current state: after         *)
(* Subscribe has returned, after a Do of a single caller, and after        *)
(* concurrent Do calls have all returned.                                  *)
(***************************************************************************)
C26_NoDoInProgress == \A p \in Procs : op[p].name = "Do" => pc[p] = "idle"

C26_LastDeliveredIsCurrent ==
  C26_NoDoInProgress =>
    \A k \in subscribers :
      delivered[k] # << >> => delivered[k][Len(delivered[k])] = current

(***************************************************************************)
(* C27: the keys Subscribe hands out grow strictly, so that no key is      *)
(* handed out twice in the life of the machine, and the entry a Subscribe  *)
(* writes into the registry never takes the place of the entry of a        *)
(* subscriber that is still registered.                                    *)
(***************************************************************************)
C27_Step(p) ==
  /\ pc[p] = "idle" /\ pc'[p] = "sublock" =>
       /\ op'[p].key > lastSubKey
       /\ lastSubKey' = op'[p].key
  /\ pc[p] = "register" /\ pc'[p] # pc[p] => op[p].key \notin subscribers

C27_KeysNeverReused == [][\A p \in Procs : C27_Step(p)]_vars

(***************************************************************************)
(* C28: an unsubscribe closure may be called again: a call after the first *)
(* leaves the registry as it finds it, and so removes no other subscriber, *)
(* one that registered after the first call included.                     *)
(***************************************************************************)
C28_Step(p) ==
  /\ pc[p] = "delete" /\ pc'[p] = "idle" /\ op[p].key \in cancelled
  => subscribers' = subscribers /\ ret'[p] = Returned(Empty, None)

C28_CancelIdempotent == [][\A p \in Procs : C28_Step(p)]_vars

(***************************************************************************)
(* C29: two machines share nothing of the engine.  A step of a call on one *)
(* machine leaves the fields of the other as they are and calls none of    *)
(* its subscribers; each machine hands out its keys from its own counter;  *)
(* and a call that needs the lock of its machine goes on whenever that     *)
(* lock allows it, whoever holds the lock of the other machine.            *)
(***************************************************************************)
C29_Step ==
  /\ other' # other =>
       /\ UNCHANGED <<shared, locks, pc, delivered, changes, trace, handles>>
       /\ Len(other'.calls) >= Len(other.calls)
       /\ \A i \in (Len(other.calls) + 1)..Len(other'.calls) :
            /\ other'.calls[i].key \in other'.subscribers
            /\ other'.calls[i].st = other.current
  /\ <<shared, locks, pc, delivered>>' # <<shared, locks, pc, delivered>> =>
       other' = other
  /\ other.pc = "idle" /\ other'.pc = "sublock" =>
       other'.key = AddInt32(other.lastSubKey)
  /\ \A p \in Procs :
       pc[p] = "idle" /\ pc'[p] = "sublock" => op'[p].key = AddInt32(lastSubKey)

C29_NoCrossWait ==
  /\ \A p \in Procs :
       /\ pc[p] \in ReadPcs /\ writer = None => ENABLED Step(p)
       /\ pc[p] \in WritePcs /\ writer = p /\ readers = {} => ENABLED Step(p)
       /\ pc[p] \in {"lock", "sublock", "unsublock"} /\ writer = None =>
            ENABLED LockAnnounce(p)
  /\ other.pc \in {"lock", "sublock"} /\ other.writer = None => ENABLED OtherLock
  /\ other.pc \in {"register", "swap"} => ENABLED OtherStep
  /\ other.pc = "notify" /\ other.writer = None => ENABLED OtherStep

C29_MachinesIndependent == []C29_NoCrossWait /\ [][C29_Step]_vars

\* both machines have handed out the key 1, and the write locks of both
\* are held at the same time
C29_Witness ==
  /\ 1 \in subscribers /\ 1 \in other.subscribers
  /\ writer \in Procs /\ pc[writer] \in WritePcs
  /\ other.writer # None

(***************************************************************************)
(* C30: a Do whose action value has none of the shapes of an action, or    *)
(* whose transition finds an @exit or @enter value that has none of the    *)
(* shapes of a lifecycle action, panics and returns nothing, no error      *)
(* either; nothing else makes Do panic, and a nil hook is passed over      *)
(* without a panic and without any effect.                                 *)
(***************************************************************************)
C30_HookOf(p) == IF pc[p] = "exit" THEN "@exit" ELSE "@enter"

C30_Step(p) ==
  /\ pc[p] = "do" /\ Moves(p) =>
       (pc'[p] = "panicked") =
         (Lookup(states, current, op[p].event).kind \notin ActionKinds)
  /\ pc[p] \in {"exit", "enter"} /\ Moves(p) =>
       LET hook == Lookup(states, current, C30_HookOf(p))
       IN /\ (pc'[p] = "panicked") = (hook.kind \notin LifecycleKinds)
          /\ hook.kind = "nil" =>
               /\ trace'[p] = trace[p]
               /\ UNCHANGED <<shared, locks, nilTabs>>
  /\ op[p].name = "Do" /\ pc'[p] = "panicked" /\ pc[p] # "panicked" =>
       pc[p] \in {"do", "exit", "enter"} /\ ~ret'[p].set
  /\ pc[p] = "panicked" => pc'[p] = "panicked" /\ ret'[p] = ret[p]

C30_MalformedPanics == [][\A p \in Procs : C30_Step(p)]_vars

\* a Do has passed over the nil @exit hook of its state, has stored the new
\* state and has panicked at the @enter value of that state
C30_Witness ==
  \E p \in SeqProcs :
    /\ op[p].name = "Do" /\ pc[p] = "panicked" /\ ~ret[p].set
    /\ Swapped(p)
    /\ Lookup(states, pre[p], "@exit").kind = "nil"
    /\ Lookup(states, current, "@enter").kind = "int"

(***************************************************************************)
(* C31: Machine called with an initial state that is no key of the table   *)
(* panics: no @enter hook has run, no field of a machine has been set, and *)
(* as no machine is returned no method is ever called on one.              *)
(***************************************************************************)
C31_Failed == phase = "panicked" /\ initial \notin DOMAIN states

C31_NothingRan ==
  C31_Failed =>
    /\ ctorTrace = << >>
    /\ current = Empty /\ subscribers = {} /\ readers = {} /\ writer = None
    /\ ncalls = 0
    /\ \A p \in Procs : pc[p] = "idle" /\ op[p] = NoOp /\ trace[p] = << >>

C31_Step ==
  /\ phase = "new" /\ phase' # "new" /\ initial' \notin DOMAIN states =>
       phase' = "panicked"
  /\ C31_Failed => UNCHANGED vars

C31_AbsentInitialPanics == []C31_NothingRan /\ [][C31_Step]_vars

\* Machine("broken", ...) has panicked
C31_Witness == C31_Failed /\ initial = "broken"

(***************************************************************************)
(* C32: a caller whose Do has panicked at an action or lifecycle value of  *)
(* no legal shape holds no lock of the machine afterwards, neither for     *)
(* reading nor for writing, so that a later call that needs the write lock *)
(* is not kept waiting by it.                                              *)
(***************************************************************************)
C32_PanicHoldsNoLock ==
  \A p \in Procs :
    op[p].name = "Do" /\ pc[p] = "panicked" => p \notin readers /\ writer # p

(***************************************************************************)
(* C33: whatever other Do calls run beside it, the @exit hook a Do runs is *)
(* the one of the table of the state its Metadata names as From, and the   *)
(* @enter hook it runs is the one of the table of the state its Metadata   *)
(* names as To.                                                            *)
(***************************************************************************)
C33_Step(p) ==
  /\ pc[p] = "exit" /\ Moves(p) /\ Lookup(states, current, "@exit").kind # "nil"
       => current = metadata[p].From
  /\ pc[p] = "enter" /\ Moves(p) /\ Lookup(states, current, "@enter").kind # "nil"
       => current = metadata[p].To

C33_HooksOfFromAndTo == [][\A p \in Procs : C33_Step(p)]_vars

(***************************************************************************)
(* C34: concurrent Do calls are atomic.  When two goroutines have each     *)
(* called Do once on the machine as Machine returned it and both calls     *)
(* have returned, the current state and the state and error each call      *)
(* returned are those of the two calls run one after the other, in one of  *)
(* the two orders.                                                         *)
(***************************************************************************)
\* Do(e) run alone on the machine in state s, lines 433-495: the state it
\* leaves the machine in and the state and error it returns
Alone(s, e) ==
  IF e \in LifecycleEvents
    THEN [cur |-> s, state |-> Empty, err |-> "illegal"]
  ELSE IF ~HasAction(states, s, e)
    THEN [cur |-> s, state |-> Empty, err |-> "noaction"]
  ELSE LET act == states[s][e]
           to == IF act.kind \in {"string", "func() string", "func(...) string"}
                   THEN act.to ELSE s
       IN [cur |-> to, state |-> to, err |-> None]

\* the call of p has returned what r says
C34_Returned(p, r) == ret[p].state = r.state /\ ret[p].err = r.err

C34_Linearizable ==
  (phase = "running" /\ ncalls = 2 /\ \A p \in Procs : DoDone(p)) =>
    \E p \in Procs :
      \A q \in Procs \ {p} :
        LET r1 == Alone(initial, op[p].event)
            r2 == Alone(r1.cur, op[q].event)
        IN /\ C34_Returned(p, r1)
           /\ C34_Returned(q, r2)
           /\ current = r2.cur

(***************************************************************************)
(* C35: the subscriber callbacks of one machine are invoked serially: at   *)
(* no time are two goroutines inside a callback of the machine, whether    *)
(* the callback is the initial delivery of Subscribe (line 579) or a       *)
(* notification of Do (line 483).                                          *)
(***************************************************************************)
InCallback(p) ==
  pc[p] \in {"subcb", "subcbcall", "subcbdone", "docb", "docbcall", "docbdone"}

C35_CallbacksSerial ==
  \A p, q \in Procs : InCallback(p) /\ InCallback(q) => p = q

(***************************************************************************)
(* C36: Add is atomic with respect to its existence check: the assignment  *)
(* of a successful Add (line 383) is made only while the machine has no    *)
(* state of that name, so that it never overwrites a table stored by       *)
(* another Add, AddOrReplace or AddOrMerge, and of the Add calls for one   *)
(* absent name only one returns nil.                                       *)
(***************************************************************************)
C36_Step(p) == Wrote(p, "Add") => op[p].state \notin DOMAIN states

C36_AddAtomic == [][\A p \in Procs : C36_Step(p)]_vars

(***************************************************************************)
(* C37: Add, AddOrReplace and AddOrMerge change the entry of the named     *)
(* state and nothing else: every step of such a call leaves the current    *)
(* state, the subscribers, the key counter and the tables of the other     *)
(* states as they were, delivers nothing to a subscriber, and runs no      *)
(* @enter or @exit hook and no notification, also when the named state is  *)
(* the current one and the new table has hooks.                            *)
(***************************************************************************)
Mutators == {"Add", "AddOrReplace", "AddOrMerge"}

\* the goroutine takes a step of a mutator call, the call itself included
MutatorStep(p) ==
  /\ op'[p].name \in Mutators
  /\ \/ pc[p] = "idle" /\ pc'[p] # "idle"
     \/ op[p].name \in Mutators /\ pc'[p] # pc[p]

C37_Step(p) ==
  MutatorStep(p) =>
    /\ current' = current
    /\ subscribers' = subscribers
    /\ lastSubKey' = lastSubKey
    /\ delivered' = delivered
    /\ \A x \in DOMAIN states \ {op'[p].state} :
         x \in DOMAIN states' /\ states'[x] = states[x]
    /\ nilTabs' \ {op'[p].state} = nilTabs \ {op'[p].state}
    /\ trace'[p] = << >>
    /\ \A q \in Procs \ {p} : trace'[q] = trace[q]

C37_MutatorsFrame == [][\A p \in Procs : C37_Step(p)]_vars

(***************************************************************************)
(* C38: the keys of the state table only grow: no step of Do, Add,         *)
(* AddOrReplace, AddOrMerge, Subscribe or an unsubscribe closure takes a   *)
(* key away, so that a name for which Exists has returned true is a key    *)
(* in every later state.                                                   *)
(***************************************************************************)
C38_Found ==
  \A p \in Procs :
    op[p].name = "Exists" /\ pc[p] = "idle" /\ ret[p].set /\ ret[p].ok
      => op[p].state \in DOMAIN states

C38_Step == DOMAIN states \subseteq DOMAIN states'

C38_KeysOnlyGrow == []C38_Found /\ [][C38_Step]_vars

\* Exists has found a state that was added, and the table of the state has
\* been written by a call that finished after the state was added
C38_Witness ==
  \E p, q \in Procs :
    /\ op[p].name = "Exists" /\ pc[p] = "idle" /\ ret[p].set /\ ret[p].ok
    /\ op[p].state \notin DOMAIN InitialStates
    /\ op[q].name \in {"AddOrReplace", "AddOrMerge"} /\ pc[q] = "idle"
    /\ ret[q].set /\ op[q].state = op[p].state
    /\ DOMAIN InitialStates \subseteq DOMAIN states

(***************************************************************************)
(* C39: AddOrMerge completes without a failure for every state, a state    *)
(* whose stored table is the nil map included: its write section ends      *)
(* with the return of the call, and the table of the state then has the    *)
(* entries the call was given.                                             *)
(***************************************************************************)
C39_Step(p) ==
  op[p].name = "AddOrMerge" /\ pc[p] \in {"put", "merge"} /\ pc'[p] # pc[p] =>
    /\ pc'[p] = "idle"
    /\ ret'[p] = Returned(Empty, None)
    /\ op[p].state \in DOMAIN states'
    /\ \A e \in DOMAIN Incoming(p) :
         /\ e \in DOMAIN states'[op[p].state]
         /\ states'[op[p].state][e] = Incoming(p)[e]

C39_MergeCompletes == [][\A p \in Procs : C39_Step(p)]_vars

====
